---- MODULE Spec2Model ----
(***************************************************************************)
(* Model of the EVM contract scanner (jamiebones/scanner):                 *)
(*   BlockScanner      src/src/scanner/BlockScanner.js  lines 7-462        *)
(*   Database          src/src/utils/MemoryMonitor.js   lines 148-507      *)
(*   EthereumProvider  src/src/utils/MemoryMonitor.js   lines 515-849      *)
(* One scanner instance at a time works on a SQLite file that outlives it. *)
(* Every await of the code is a point where other handlers may run, so a   *)
(* handler is split into one action per stretch between awaits that the    *)
(* properties can tell apart.                                              *)
(***************************************************************************)
EXTENDS Integers, FiniteSets, Sequences, TLC

(* ------------------------------ bounds -------------------------------- *)
\* highest block number the chain reaches
MaxHead == 2
\* operator commands that begin work over one behaviour: start() calls that
\* are not refused at once, and constructions of a further scanner instance
MaxCalls == 3
\* failures injected by the environment (failed RPCs, rejected writes,
\* dropped or refused connections) over one behaviour
MaxFaults == 1

\* saveContract calls over one behaviour
MaxSaves == 3
\* most logs a transaction receipt carries
MaxLogs == 1
\* largest configured scanner.maxRetries
MaxRetryCount == 6

\* chain height when the first instance is constructed
InitHead == MaxHead - 1

(* ------------------------- values of the code -------------------------- *)
\* the 'latest' keyword of scannerConfig.startBlock / endBlock
Latest == -1
\* getScanningProgress resolves undefined: no row for the network
NoCheckpoint == -1

Modes == {"realtime", "historical", "both"}
\* chainId of the active network (ethereum) and the chain ids an endpoint
\* may report (ethereum, polygon)
ChainId == 1
EndpointChainIds == {1, 137}
Blocks == 0..MaxHead
\* configured block numbers the operator may give
CfgStartBlocks == {0, Latest}
CfgEndBlocks == {0, Latest}
BatchSizes == {1, 2}

\* The contract records the detector finds in block n: block n deploys
\* n % 3 contracts, each at an address of its own.
ChainRecords(n) == {n * 10 + i : i \in 1..(n % 3)}

Max(a, b) == IF a >= b THEN a ELSE b
Min(a, b) == IF a <= b THEN a ELSE b

VARIABLES
    \* scannerConfig; the chain the RPC endpoint serves
    scanMode, startBlock, endBlock, batchSize, endpointChainId,
    \* BlockScanner fields
    initialized, initError, isRunning, isPaused,
    blocksProcessed, contractsFound, errors,
    \* EthereumProvider fields
    provider, wsProvider, blockListener, closePending,
    \* Database: handle state and the tables' contents
    dbOpen, lastScannedBlock, contracts,
    \* the chain
    latestBlock,
    \* start() awaiting determineBlockRange; the scanBlockRange loop
    startPc, scanPc, rangeStart, rangeEnd, currentStart, currentEnd,
    blockResults, fetchFailed, inBatch,
    \* (history) the processBatch calls of the loop
    batchCalls,
    \* 'block' notifications being fetched; realtime blocks inside processBlock
    newBlocks, inRealtime,
    \* history variables
    calls, stopped, fetchCount, progressSeen, pauseBreak,
    entered, processed, rejected, rtMined, notified, missed, missedBefore,
    startError,
    \* failures injected so far
    faults

\* one call of EthereumProvider.withRetry
VARIABLES
    maxRetries, retryPc, attempt, delay, invocations, sleeps, lastError

retryVars == <<maxRetries, retryPc, attempt, delay, invocations, sleeps,
               lastError>>
\* ContractDetector.processTransaction on one transaction: the transaction,
\* its receipt, the addresses that hold bytecode, the analyzeBytecode
\* setting and the records returned
VARIABLES
    txTo, txData, receipt, logs, withCode, analyzeBytecode, records, detPc

\* ContractDetector.processBlock on one block: its transactions, the
\* records returned
VARIABLES
    blockTxs, blockRecords, blockPc

txVars == <<txTo, txData, receipt, logs, withCode, analyzeBytecode, records,
            detPc>>
blockVars == <<blockTxs, blockRecords, blockPc>>
detVars == <<txVars, blockVars>>
\* Database.saveContract on the contracts table: its rows, the next
\* AUTOINCREMENT id, and (history) the records saved so far
VARIABLES
    rows, nextId, saves
\* the scanning_progress table: its rows and the next AUTOINCREMENT id
VARIABLES
    progressRows, progressNextId

\* the contract_analysis table: its rows, the next AUTOINCREMENT id, and
\* (history) the analyses saved so far
VARIABLES
    analysisRows, analysisNextId, analysisSaves

contractVars == <<rows, nextId, saves>>
progressVars == <<progressRows, progressNextId>>
analysisVars == <<analysisRows, analysisNextId, analysisSaves>>
storeVars == <<contractVars, progressVars, analysisVars>>
\* EthereumProvider, the WebSocket side: the WebSocketProvider objects
\* created so far, the one this.wsProvider refers to (0: null), and the
\* calls of the scanner's callback made for the block mined last; the
\* intervals set by BlockScanner.keepAlive that have not been cleared
VARIABLES
    wsSockets, wsCurrent, wsCallbacks, keepAliveTimers

wsVars == <<wsSockets, wsCurrent, wsCallbacks, keepAliveTimers>>
\* InteractiveMode (src/index.js): its isRunning flag, the 'start' handler
\* awaiting scanner.start(), and (history) the command handled last
VARIABLES
    cliRunning, cliStartPc, cliLast

cliVars == <<cliRunning, cliStartPc, cliLast>>
\* the variables of the components modelled by a specification of their own
auxVars == <<retryVars, detVars, storeVars, wsVars, cliVars>>

cfgVars == <<scanMode, startBlock, endBlock, batchSize, endpointChainId>>
scannerVars == <<initialized, initError, isRunning, isPaused>>
statVars == <<blocksProcessed, contractsFound, errors>>
provVars == <<provider, wsProvider, blockListener, closePending>>
dbVars == <<dbOpen, lastScannedBlock, contracts>>
loopVars == <<scanPc, rangeStart, rangeEnd, currentStart, currentEnd,
              blockResults, fetchFailed, inBatch, batchCalls>>
rtVars == <<newBlocks, inRealtime>>
histVars == <<calls, stopped, fetchCount, progressSeen,
              pauseBreak, entered, processed, rejected, rtMined, notified,
              missed, missedBefore, startError>>

scanVars == <<cfgVars, scannerVars, statVars, provVars, dbVars, latestBlock,
              startPc, loopVars, rtVars, histVars, faults>>

vars == <<scanVars, auxVars>>

NoFetches == [n \in Blocks |-> 0]

(* ---------------------------- construction ----------------------------- *)
\* new BlockScanner(): the fields as the constructor leaves them
Fresh ==
    /\ initialized = FALSE /\ initError = "none"
    /\ isRunning = FALSE /\ isPaused = FALSE
    /\ blocksProcessed = 0 /\ contractsFound = 0 /\ errors = 0
    /\ provider = FALSE /\ wsProvider = "null"
    /\ blockListener = FALSE /\ closePending = FALSE
    /\ dbOpen = FALSE
    /\ startPc = "none" /\ scanPc = "idle"
    /\ rangeStart = 0 /\ rangeEnd = 0 /\ currentStart = 0 /\ currentEnd = 0
    /\ blockResults = {} /\ fetchFailed = {} /\ inBatch = {}
    /\ batchCalls = 0
    /\ newBlocks = {} /\ inRealtime = {}
    /\ stopped = FALSE /\ fetchCount = NoFetches
    /\ progressSeen = NoCheckpoint /\ pauseBreak = FALSE
    /\ entered = 0 /\ processed = {} /\ rejected = {}
    /\ rtMined = {} /\ notified = {}
    /\ missedBefore = {}
    /\ startError = "none"

\* EthereumProvider.constructor: the retry settings; scanner.maxRetries
\* defaults to 3
RetryDelay == 1000
MaxRetryDelay == 30000
DefaultMaxRetries == 3

\* withRetry as it is entered: attempt 0, the first delay, nothing called
RetryEntry ==
    /\ retryPc = "top"
    /\ attempt = 0
    /\ delay = RetryDelay
    /\ invocations = 0
    /\ sleeps = <<>>
    /\ lastError = "none"

\* no transaction is before the detector
DetectorParked ==
    /\ txTo = "null"
    /\ txData = "empty"
    /\ receipt = [present |-> FALSE, status |-> 0, contractAddress |-> "none"]
    /\ logs = <<>>
    /\ withCode = {}
    /\ analyzeBytecode = FALSE
    /\ records = <<>>
    /\ detPc = "idle"
    /\ blockTxs = <<>>
    /\ blockRecords = <<>>
    /\ blockPc = "idle"

\* Database.createTables: the contracts table as it is created
StoreEmpty ==
    /\ rows = {}
    /\ nextId = 1
    /\ saves = <<>>
    /\ progressRows = {}
    /\ progressNextId = 1
    /\ analysisRows = {}
    /\ analysisNextId = 1
    /\ analysisSaves = <<>>

\* WebSocketProvider objects created over one behaviour
MaxProviders == 3
ProviderIds == 1..MaxProviders

\* a WebSocketProvider that does not exist yet
NoSocket == [state |-> "unused", attempt |-> "none",
             closeHandlers |-> 0, blockListeners |-> 0]

\* InteractiveMode.constructor: isRunning = false, no command handled
CliIdle ==
    /\ cliRunning = FALSE
    /\ cliStartPc = "idle"
    /\ cliLast = "none"

\* EthereumProvider.constructor: this.wsProvider = null
NoWebSocket ==
    /\ wsSockets = [p \in ProviderIds |-> NoSocket]
    /\ wsCurrent = 0
    /\ wsCallbacks = 0
    /\ keepAliveTimers = 0

Init ==
    /\ StoreEmpty
    /\ NoWebSocket
    /\ CliIdle
    /\ maxRetries = DefaultMaxRetries
    /\ RetryEntry
    /\ DetectorParked
    /\ scanMode \in Modes
    /\ startBlock \in CfgStartBlocks
    /\ endBlock \in CfgEndBlocks
    /\ batchSize \in BatchSizes
    /\ endpointChainId \in EndpointChainIds
    /\ Fresh
    /\ lastScannedBlock = NoCheckpoint
    /\ contracts = {}
    /\ latestBlock = InitHead
    /\ missed = {}
    /\ calls = 0
    /\ faults = 0


(* ------------------------ environment failures ------------------------- *)
\* the environment injects k more failures, within the budget
Inject(k) == /\ faults + k <= MaxFaults
             /\ faults' = faults + k

(* --------------------------- pure helpers ------------------------------ *)
\* determineBlockRange: the 'latest' keyword becomes the chain height
ResolveBlock(configured, latest) ==
    IF configured = Latest THEN latest ELSE configured

\* a determineBlockRange that ignores the saved progress
ResolveStartIgnoringProgress(start, progress) == start

\* determineBlockRange: saved progress moves the start forward; the test
\* `progress && progress.last_scanned_block` is false without a row and
\* false for a stored 0
ResolveStart(start, progress) ==
    IF progress # NoCheckpoint /\ progress # 0
    THEN Max(start, progress + 1)
    ELSE start

\* a batch end without the Math.min against the range end
BatchEndUnclamped(cs, bs, e) == cs + bs - 1

\* scanBlockRange: last block of the batch that begins at cs
BatchEnd(cs, bs, e) == Min(cs + bs - 1, e)

\* a loop that advances by one block whatever the batch size
NextStartByOne(cs, bs) == cs + 1

\* a loop whose next batch starts at the last block of the batch before
NextStartAtBatchEnd(cs, bs) == cs + bs - 1

\* scanBlockRange: the loop increment
NextStart(cs, bs) == cs + bs

\* a guard that tests isRunning only
MayStartWorkIgnoringPause(running, paused) == running

\* the guard `if (!this.isRunning || this.isPaused)` of the batch loop and
\* of the new-block callback, negated: work may begin
MayStartWork(running, paused) == running /\ ~paused

\* a getBatchBlocks built on Promise.all: one rejection loses the batch
BatchResultsAllOrNothing(range, failed) == IF failed = {} THEN range ELSE {}

\* getBatchBlocks: Promise.allSettled keeps every fulfilled fetch and only
\* logs the rejected ones
BatchResults(range, failed) == range \ failed

\* ContractDetector.processBlock as the scanner sees it: with the HTTP
\* provider gone every receipt fetch throws and is turned into "no record"
DetectContracts(n) ==
    IF provider /\ n <= latestBlock THEN ChainRecords(n) ELSE {}

\* onNewBlock throws 'WebSocket provider not initialized' without a provider
CanSubscribe == wsProvider # "null"

(* ----------------------------- lifecycle ------------------------------- *)
\* a connection test that accepts whatever chain the endpoint serves
TestConnectionAnyChain(reported, configured) == TRUE

\* EthereumProvider.testConnection: one getNetwork call, made directly and
\* not through withRetry; the reported chain id must be the configured one
TestConnection(reported, configured) == reported = configured

\* BlockScanner.initialize: database, HTTP provider and, for the realtime
\* and both modes, the WebSocket provider.  A chain id mismatch makes
\* provider.initialize throw before the WebSocket provider and the detector
\* exist; the callers (src/index.js, server/server.js) call start() only
\* after initialize() has resolved.  initializeWebSocket returns false
\* without throwing when no wsUrl is configured (wsProvider stays null) or
\* when the connection test fails (wsProvider stays assigned, no handlers
\* installed).
Initialize ==
    /\ ~initialized
    /\ initError = "none"
    /\ provider' = TRUE
    /\ dbOpen' = TRUE
    /\ IF TestConnection(endpointChainId, ChainId)
       THEN /\ initialized' = TRUE
            /\ initError' = initError
            /\ IF scanMode \in {"realtime", "both"}
               THEN wsProvider' \in {"open", "broken", "null"}
               ELSE wsProvider' = "null"
            /\ Inject(IF wsProvider' = "broken" THEN 1 ELSE 0)
       ELSE /\ initialized' = initialized
            /\ initError' = "chain"
            /\ wsProvider' = wsProvider
            /\ faults' = faults
    /\ UNCHANGED <<auxVars, cfgVars, isRunning, isPaused, statVars, blockListener,
                   closePending, lastScannedBlock, contracts, latestBlock,
                   startPc, loopVars, rtVars, histVars>>

\* BlockScanner.start.  A call while isRunning returns at once and changes
\* nothing.  In realtime mode startRealtimeScanning has no await: it either
\* subscribes or throws, and the catch resets isRunning before any other
\* handler runs.  In the other modes start() now awaits determineBlockRange.
StartCall ==
    /\ initialized
    /\ ~isRunning
    /\ calls < MaxCalls
    /\ calls' = calls + 1
    /\ IF scanMode = "realtime"
       THEN /\ isRunning' = CanSubscribe
            /\ blockListener' = (blockListener \/ CanSubscribe)
            /\ startPc' = startPc
            /\ startError' = IF CanSubscribe THEN "none" ELSE "subscribe"
       ELSE /\ isRunning' = TRUE
            /\ blockListener' = blockListener
            /\ startPc' = "range"
            /\ startError' = "none"
    /\ UNCHANGED <<cfgVars, initialized, initError, isPaused, statVars, provider,
                   wsProvider, closePending, dbVars, latestBlock, loopVars,
                   rtVars, stopped, fetchCount, progressSeen,
                   pauseBreak, entered, processed, rejected, rtMined,
                   notified, missed, missedBefore, faults>>

\* start() called on the scanner by its owner
Start ==
    /\ StartCall
    /\ UNCHANGED auxVars

\* a determineBlockRange without the final range validation
RangeFailsUnvalidated(rpcOk, dbOk) == ~rpcOk \/ ~dbOk

\* determineBlockRange rejects: getLatestBlockNumber fails (always once
\* disconnect has nulled the provider), getScanningProgress fails (always on
\* a closed database), or the resolved start exceeds the resolved end.
\* start() catches, resets isRunning and rethrows.
RangeFails(rpcOk, dbOk) ==
    \/ ~rpcOk
    \/ ~dbOk
    \/ ResolveStart(ResolveBlock(startBlock, latestBlock), lastScannedBlock)
         > ResolveBlock(endBlock, latestBlock)

DetermineBlockRange ==
    /\ startPc = "range"
    /\ startPc' = "none"
    /\ \E rpcOk \in {provider, FALSE}, dbOk \in {dbOpen, FALSE} :
         /\ Inject((IF provider /\ ~rpcOk THEN 1 ELSE 0)
                   + (IF dbOpen /\ ~dbOk THEN 1 ELSE 0))
         /\ IF RangeFails(rpcOk, dbOk)
           THEN /\ isRunning' = FALSE
                /\ startError' = IF rpcOk /\ dbOk THEN "range" ELSE "rpc"
                /\ UNCHANGED <<loopVars, fetchCount, progressSeen,
                               pauseBreak, processed, missedBefore>>
           ELSE /\ isRunning' = isRunning
                /\ startError' = startError
                /\ rangeStart' =
                     ResolveStart(ResolveBlock(startBlock, latestBlock),
                                  lastScannedBlock)
                /\ rangeEnd' = ResolveBlock(endBlock, latestBlock)
                /\ currentStart' = rangeStart'
                /\ scanPc' = "top"
                /\ fetchCount' = NoFetches
                /\ progressSeen' = lastScannedBlock
                /\ pauseBreak' = FALSE
                /\ processed' = {}
                /\ missedBefore' = missed
                /\ batchCalls' = 0
                /\ UNCHANGED <<currentEnd, blockResults, fetchFailed, inBatch>>
    /\ UNCHANGED <<auxVars, cfgVars, initialized, initError, isPaused, statVars, provVars, dbVars,
                   latestBlock, rtVars, calls, stopped,
                   entered, rejected, rtMined, notified, missed>>

\* BlockScanner.pause / resume: refused unless running
Pause ==
    /\ isRunning
    /\ ~isPaused
    /\ isPaused' = TRUE
    /\ UNCHANGED <<auxVars, cfgVars, initialized, initError, isRunning, statVars, provVars, dbVars,
                   latestBlock, startPc, loopVars, rtVars, histVars, faults>>

Resume ==
    /\ isRunning
    /\ isPaused
    /\ isPaused' = FALSE
    /\ UNCHANGED <<auxVars, cfgVars, initialized, initError, isRunning, statVars, provVars, dbVars,
                   latestBlock, startPc, loopVars, rtVars, histVars, faults>>

\* a stop() that does not close the database
DatabaseLeftOpen(open) == open

\* stop() awaits database.close(): the handle is closed when it returns
DatabaseAfterStop(open) == FALSE

\* BlockScanner.stop with EthereumProvider.disconnect and Database.close.
\* destroy() of the WebSocket provider closes its socket; the socket of a
\* provider whose handlers were installed will emit 'close' afterwards.
\* The awaits inside stop() resolve without I/O, so nothing of the scanner
\* that needs I/O runs between its first and its last line.
StopCall ==
    /\ isRunning
    /\ isRunning' = FALSE
    /\ isPaused' = FALSE
    /\ closePending' = (closePending \/ wsProvider = "open")
    /\ wsProvider' = "null"
    /\ blockListener' = FALSE
    /\ provider' = FALSE
    /\ dbOpen' = DatabaseAfterStop(dbOpen)
    /\ stopped' = TRUE
    /\ UNCHANGED <<cfgVars, initialized, initError, statVars, lastScannedBlock, contracts,
                   latestBlock, startPc, loopVars, rtVars, calls, fetchCount,
                   progressSeen, pauseBreak, entered, processed, rejected,
                   rtMined, notified, missed, missedBefore, startError,
                   faults>>

\* stop() called on the scanner by its owner
Stop ==
    /\ StopCall
    /\ UNCHANGED auxVars

\* The process ends (exit or crash) and the operator runs the scanner again:
\* a new BlockScanner on the same database file and the same chain, with the
\* same block range and batch size and any scan mode.
Construct ==
    /\ calls < MaxCalls
    /\ calls' = calls + 1
    /\ scanMode' \in Modes
    /\ UNCHANGED <<startBlock, endBlock, batchSize, endpointChainId>>
    /\ initialized' = FALSE /\ initError' = "none"
    /\ isRunning' = FALSE /\ isPaused' = FALSE
    /\ blocksProcessed' = 0 /\ contractsFound' = 0 /\ errors' = 0
    /\ provider' = FALSE /\ wsProvider' = "null"
    /\ blockListener' = FALSE /\ closePending' = FALSE
    /\ dbOpen' = FALSE
    /\ startPc' = "none" /\ scanPc' = "idle"
    /\ rangeStart' = 0 /\ rangeEnd' = 0 /\ currentStart' = 0 /\ currentEnd' = 0
    /\ blockResults' = {} /\ fetchFailed' = {} /\ inBatch' = {}
    /\ batchCalls' = 0
    /\ newBlocks' = {} /\ inRealtime' = {}
    /\ stopped' = FALSE /\ fetchCount' = NoFetches
    /\ progressSeen' = NoCheckpoint /\ pauseBreak' = FALSE
    /\ entered' = 0 /\ processed' = {} /\ rejected' = {}
    /\ rtMined' = {} /\ notified' = {}
    /\ missedBefore' = {}
    /\ startError' = "none"
    /\ UNCHANGED <<lastScannedBlock, contracts, latestBlock, missed, faults,
                   auxVars>>


(* ------------------------- historical scanning ------------------------- *)
\* numbers of the batch in flight
BatchRange == currentStart..currentEnd

\* scanBlockRange, head of the loop with work left and neither paused nor
\* stopped: processBatch is called and awaits getBatchBlocks
ScanBatchStart ==
    /\ scanPc = "top"
    /\ currentStart <= rangeEnd
    /\ MayStartWork(isRunning, isPaused)
    /\ currentEnd' = BatchEnd(currentStart, batchSize, rangeEnd)
    /\ batchCalls' = batchCalls + 1
    /\ scanPc' = "fetch"
    /\ UNCHANGED <<auxVars, cfgVars, scannerVars, statVars, provVars, dbVars,
                   latestBlock, startPc, rangeStart, rangeEnd, currentStart,
                   blockResults, fetchFailed, inBatch, rtVars, histVars, faults>>

\* a start() that marks the scanner as not running once the pass is over
RunningCleared(running) == FALSE

\* start() in historical mode returns from startHistoricalScanning and
\* leaves isRunning as it is
RunningAfterPass(running) == running

\* scanBlockRange returns: the range is exhausted, or the loop breaks on
\* `!isRunning || isPaused`.  startHistoricalScanning returns; in mode
\* 'both' startBothModes goes on to startRealtimeScanning, which subscribes
\* or throws (start() then resets isRunning).
ScanLoopExit ==
    /\ scanPc = "top"
    /\ \/ currentStart > rangeEnd
       \/ ~MayStartWork(isRunning, isPaused)
    /\ scanPc' = "done"
    /\ pauseBreak' = (currentStart <= rangeEnd /\ isRunning /\ isPaused)
    /\ IF scanMode = "both"
       THEN /\ isRunning' = (isRunning /\ CanSubscribe)
            /\ blockListener' = (blockListener \/ CanSubscribe)
            /\ startError' = IF CanSubscribe THEN startError ELSE "subscribe"
       ELSE /\ isRunning' = RunningAfterPass(isRunning)
            /\ UNCHANGED <<blockListener, startError>>
    /\ UNCHANGED <<auxVars, cfgVars, initialized, initError, isPaused, statVars, provider,
                   wsProvider, closePending, dbVars, latestBlock, startPc,
                   rangeStart, rangeEnd, batchCalls, currentStart, currentEnd,
                   blockResults, fetchFailed, inBatch, rtVars, calls,
                   stopped, fetchCount, progressSeen, entered, processed,
                   rejected, rtMined, notified, missed, missedBefore, faults>>

\* getBatchBlocks resolves: one getBlock per number of the batch, each of
\* which may fail after its retries (all do once the provider is null).
\* processBatch maps processBlock over the results; a block the node does
\* not have yet comes back null and processBlock returns on it at once.
GetBatchBlocks ==
    /\ scanPc = "fetch"
    /\ \E failed \in SUBSET BatchRange :
         /\ (~provider => failed = BatchRange)
         /\ Inject(IF provider THEN Cardinality(failed) ELSE 0)
         /\ blockResults' = BatchResults(BatchRange, failed)
         /\ fetchFailed' = failed
         /\ missed' = (missed \ BatchRange) \cup failed
    /\ inBatch' = {n \in blockResults' : n <= latestBlock}
    /\ entered' = entered + Cardinality(inBatch')
    /\ fetchCount' = [n \in Blocks |->
                        IF n \in BatchRange THEN fetchCount[n] + 1
                        ELSE fetchCount[n]]
    /\ scanPc' = "process"
    /\ UNCHANGED <<auxVars, cfgVars, scannerVars, statVars, provVars, dbVars,
                   latestBlock, startPc, rangeStart, rangeEnd, batchCalls, currentStart,
                   currentEnd, rtVars, calls, stopped,
                   progressSeen, pauseBreak, processed, rejected, rtMined,
                   notified, missedBefore, startError>>

\* a saveContracts whose Promise.all sees the rejected writes: one of them
\* fails the whole call
SavedAllOrNothing(detected, failedWrites) ==
    IF failedWrites = {} THEN detected ELSE {}

\* saveContracts: every write sits in a try/catch of its own that returns
\* false, so a record is stored exactly when its own write succeeds
SavedRecords(detected, failedWrites) == detected \ failedWrites

\* BlockScanner.processBlock from detection to the counters.  saveContracts
\* saves the records in parallel and swallows every rejected write; writes
\* on a closed database are all rejected.  contractsFound counts the
\* detected records, saved or not.
SaveDetected(n, detected) ==
    \E failedWrites \in SUBSET detected :
        /\ (~dbOpen => failedWrites = detected)
        /\ Inject(IF dbOpen THEN Cardinality(failedWrites) ELSE 0)
        /\ contracts' = contracts \cup SavedRecords(detected, failedWrites)
        /\ rejected' = rejected \cup failedWrites
        /\ contractsFound' = contractsFound + Cardinality(detected)
        /\ blocksProcessed' = blocksProcessed + 1
        /\ processed' = processed \cup {n}

\* processBlock on block n, detection included
BlockProcessed(n) == SaveDetected(n, DetectContracts(n))

\* one block of the batch completes
ProcessBlock ==
    /\ scanPc = "process"
    /\ \E n \in inBatch :
         /\ BlockProcessed(n)
         /\ inBatch' = inBatch \ {n}
    /\ UNCHANGED <<auxVars, cfgVars, scannerVars, errors, provVars, dbOpen,
                   lastScannedBlock, latestBlock, startPc, scanPc, rangeStart,
                   rangeEnd, batchCalls, currentStart, currentEnd, blockResults,
                   fetchFailed, rtVars, calls, stopped, fetchCount, progressSeen,
                   pauseBreak, entered, rtMined, notified, missed,
                   missedBefore, startError>>

\* Database.updateScanningProgress: INSERT OR REPLACE of the network's row
ProgressRow(old, lastScanned) == lastScanned

\* processBatch has returned (every mapped processBlock settled); the loop
\* awaits updateScanningProgress(currentEnd).  A rejected write lands in the
\* catch: errors++ and continue.  Either way the loop comes back to its head
\* with currentStart advanced (after the batchDelay sleep on success).
UpdateScanningProgress ==
    /\ scanPc = "process"
    /\ inBatch = {}
    /\ \E ok \in {dbOpen, FALSE} :
         /\ Inject(IF dbOpen /\ ~ok THEN 1 ELSE 0)
         /\ IF ok
            THEN /\ lastScannedBlock' =
                      ProgressRow(lastScannedBlock, currentEnd)
                 /\ errors' = errors
            ELSE /\ lastScannedBlock' = lastScannedBlock
                 /\ errors' = errors + 1
    /\ currentStart' = NextStart(currentStart, batchSize)
    /\ blockResults' = {}
    /\ fetchFailed' = {}
    /\ scanPc' = "top"
    /\ UNCHANGED <<auxVars, cfgVars, scannerVars, blocksProcessed, contractsFound,
                   provVars, dbOpen, contracts, latestBlock, startPc,
                   rangeStart, rangeEnd, batchCalls, currentEnd, inBatch, rtVars,
                   histVars>>

(* -------------------------- realtime scanning -------------------------- *)
\* the scanner has subscribed and has not failed or been stopped since
RealtimeActive ==
    /\ isRunning
    /\ startPc = "none"
    /\ \/ scanMode = "realtime"
       \/ scanMode = "both" /\ scanPc = "done"

\* the 'block' listener registered by onNewBlock sits on the provider that
\* is connected now
Listening == wsProvider = "open" /\ blockListener

\* the node mines a block; a listening provider emits 'block' and the
\* listener of onNewBlock starts getBlock(blockNumber)
NewBlock ==
    /\ latestBlock < MaxHead
    /\ latestBlock' = latestBlock + 1
    /\ newBlocks' = IF Listening THEN newBlocks \cup {latestBlock'} ELSE newBlocks
    /\ notified' = IF Listening THEN notified \cup {latestBlock'} ELSE notified
    /\ rtMined' = IF RealtimeActive /\ wsProvider = "open"
                  THEN rtMined \cup {latestBlock'} ELSE rtMined
    /\ UNCHANGED <<auxVars, cfgVars, scannerVars, statVars, provVars, dbVars, startPc,
                   loopVars, inRealtime, calls, stopped,
                   fetchCount, progressSeen, pauseBreak, entered, processed,
                   rejected, missed, missedBefore, startError, faults>>

\* the listener's getBlock settles.  Fulfilled: the scanner's callback runs,
\* returns at once when stopped or paused, and otherwise enters
\* processBlock.  Rejected: the listener logs and drops the notification.
OnNewBlock ==
    \E n \in newBlocks, fetched \in {provider, FALSE} :
        /\ newBlocks' = newBlocks \ {n}
        /\ Inject(IF provider /\ ~fetched THEN 1 ELSE 0)
        /\ IF fetched /\ MayStartWork(isRunning, isPaused)
           THEN /\ inRealtime' = inRealtime \cup {n}
                /\ entered' = entered + 1
           ELSE UNCHANGED <<inRealtime, entered>>
        /\ UNCHANGED <<auxVars, cfgVars, scannerVars, statVars, provVars, dbVars,
                       latestBlock, startPc, loopVars, calls,
                       stopped, fetchCount, progressSeen, pauseBreak,
                       processed, rejected, rtMined, notified, missed,
                       missedBefore, startError>>

\* a block delivered by the subscription completes processBlock
ProcessRealtimeBlock ==
    /\ \E n \in inRealtime :
         /\ BlockProcessed(n)
         /\ inRealtime' = inRealtime \ {n}
    /\ UNCHANGED <<auxVars, cfgVars, scannerVars, errors, provVars, dbOpen,
                   lastScannedBlock, latestBlock, startPc, loopVars, newBlocks,
                   calls, stopped, fetchCount, progressSeen,
                   pauseBreak, entered, rtMined, notified, missed,
                   missedBefore, startError>>

\* The socket emits 'close': the connection dropped, or the provider was
\* destroyed by disconnect().  The handler installed by
\* setupWebSocketHandlers calls reconnectWebSocket, which runs
\* initializeWebSocket: wsProvider is replaced by a new provider, connected
\* or not, that carries no 'block' listener.
WebSocketClose ==
    /\ wsProvider = "open" \/ closePending
    /\ closePending' = FALSE
    /\ wsProvider' \in {"open", "broken"}
    /\ Inject((IF wsProvider = "open" THEN 1 ELSE 0)
              + (IF wsProvider' = "broken" THEN 1 ELSE 0))
    /\ blockListener' = FALSE
    /\ UNCHANGED <<auxVars, cfgVars, scannerVars, statVars, provider, dbVars,
                   latestBlock, startPc, loopVars, rtVars, histVars>>

Next ==
    \/ Initialize
    \/ Start
    \/ DetermineBlockRange
    \/ Pause
    \/ Resume
    \/ Stop
    \/ Construct
    \/ ScanBatchStart
    \/ ScanLoopExit
    \/ GetBatchBlocks
    \/ ProcessBlock
    \/ UpdateScanningProgress
    \/ NewBlock
    \/ OnNewBlock
    \/ ProcessRealtimeBlock
    \/ WebSocketClose

Spec == Init /\ [][Next]_vars

(* ---------------------- EthereumProvider.withRetry ---------------------- *)
\* the errors an RPC operation may reject with
ErrorKinds == {"timeout", "rate limit"}
\* values of scanner.maxRetries
RetryCounts == 1..MaxRetryCount

\* the scanner while a single withRetry call is followed: constructed,
\* nothing started
ScannerParked ==
    /\ NoWebSocket
    /\ CliIdle
    /\ scanMode = "historical"
    /\ startBlock = Latest
    /\ endBlock = Latest
    /\ batchSize = 1
    /\ endpointChainId = ChainId
    /\ Fresh
    /\ lastScannedBlock = NoCheckpoint
    /\ contracts = {}
    /\ latestBlock = InitHead
    /\ missed = {}
    /\ calls = 0
    /\ faults = 0

RetryInit ==
    /\ maxRetries \in RetryCounts
    /\ RetryEntry
    /\ ScannerParked
    /\ DetectorParked
    /\ StoreEmpty

\* a loop condition that allows one attempt less
MayAttemptStrict(att, max) == att < max

\* the loop condition `attempt <= this.maxRetries`
MayAttempt(att, max) == att <= max

\* the catch branch sleeps `if (attempt < this.maxRetries)`
SleepsBeforeRetry(att, max) == att < max

\* a backoff that doubles without a ceiling
NextDelayUncapped(d) == d * 2

\* the delay after a sleep: doubled, capped
NextDelay(d) == Min(d * 2, MaxRetryDelay)

\* head of the for loop: another attempt, or the loop is left and the last
\* error is thrown
RetryLoopHead ==
    /\ retryPc = "top"
    /\ retryPc' = IF MayAttempt(attempt, maxRetries) THEN "try" ELSE "thrown"
    /\ UNCHANGED <<maxRetries, attempt, delay, invocations, sleeps, lastError,
                   scanVars, wsVars, cliVars, detVars, storeVars>>

\* the awaited operation resolves: withRetry returns its result
OperationSucceeds ==
    /\ retryPc = "try"
    /\ invocations' = invocations + 1
    /\ retryPc' = "returned"
    /\ UNCHANGED <<maxRetries, attempt, delay, sleeps, lastError, scanVars, wsVars, cliVars,
                   detVars, storeVars>>

\* the awaited operation rejects: the error is kept; before the last
\* attempt the loop sleeps, after it the loop goes on to its increment
OperationFails ==
    /\ retryPc = "try"
    /\ invocations' = invocations + 1
    /\ lastError' \in ErrorKinds
    /\ IF SleepsBeforeRetry(attempt, maxRetries)
       THEN /\ retryPc' = "sleep"
            /\ attempt' = attempt
       ELSE /\ retryPc' = "top"
            /\ attempt' = attempt + 1
    /\ UNCHANGED <<maxRetries, delay, sleeps, scanVars, wsVars, cliVars, detVars, storeVars>>

\* the sleep ends: the delay doubles up to maxRetryDelay, next attempt
RetrySleepDone ==
    /\ retryPc = "sleep"
    /\ sleeps' = Append(sleeps, delay)
    /\ delay' = NextDelay(delay)
    /\ attempt' = attempt + 1
    /\ retryPc' = "top"
    /\ UNCHANGED <<maxRetries, invocations, lastError, scanVars, wsVars, cliVars, detVars, storeVars>>

RetryNext ==
    \/ RetryLoopHead
    \/ OperationSucceeds
    \/ OperationFails
    \/ RetrySleepDone

SpecRetry == RetryInit /\ [][RetryNext]_vars

\* a withRetry call of the provider while its scanner is initialized,
\* started and stopped: stop() runs disconnect() and close() and touches
\* neither the loop nor its timer
RetryStopNext ==
    \/ RetryNext
    \/ Initialize
    \/ Start
    \/ Stop

SpecRetryStop == RetryInit /\ [][RetryStopNext]_vars

(* ------------------------- config.scanner.batchSize --------------------- *)
\* config.scanner.batchSize when BATCH_SIZE is unset, not a number or 0
DefaultBatchSize == 100

\* BATCH_SIZE after parseInt, and the --batch-size option or the batchSize
\* of the body of POST /api/scanner/start; 0 stands for every falsy value
\* (unset, NaN, 0)
GivenBatchSizes == {-1, 0, 1, 2}

\* the batch size a scanner is constructed with: `parseInt(env) || 100`,
\* replaced by the option `if (options.batchSize)`
ConfiguredBatchSize(env, option) ==
    IF option # 0 THEN option
    ELSE IF env # 0 THEN env
    ELSE DefaultBatchSize

\* validateConfig: throws on an unknown active network, warns on a default
\* RPC URL and returns true; it reads no field of config.scanner but
\* activeNetwork
ValidateConfig(size) == TRUE

\* loop heads followed below the start of the range
MaxDescent == 2

\* a historical scanner constructed from a configuration that passed
\* validateConfig
ConfigInit ==
    /\ NoWebSocket
    /\ CliIdle
    /\ maxRetries = DefaultMaxRetries
    /\ RetryEntry
    /\ DetectorParked
    /\ StoreEmpty
    /\ scanMode = "historical"
    /\ startBlock \in CfgStartBlocks
    /\ endBlock \in CfgEndBlocks
    /\ \E env \in GivenBatchSizes, option \in GivenBatchSizes :
         batchSize = ConfiguredBatchSize(env, option)
    /\ ValidateConfig(batchSize)
    /\ endpointChainId = ChainId
    /\ Fresh
    /\ lastScannedBlock = NoCheckpoint
    /\ contracts = {}
    /\ latestBlock = InitHead
    /\ missed = {}
    /\ calls = 0
    /\ faults = 0

\* initialize(), start() and the historical loop, until stop()
ConfigNext ==
    \/ Initialize
    \/ Start
    \/ DetermineBlockRange
    \/ currentStart > rangeStart - MaxDescent /\ ScanBatchStart
    \/ ScanLoopExit
    \/ GetBatchBlocks
    \/ ProcessBlock
    \/ UpdateScanningProgress
    \/ Stop

SpecConfig == ConfigInit /\ [][ConfigNext]_vars

(* --------------------------- InteractiveMode ---------------------------- *)
\* the components the interactive shell does not touch
cliRest == <<retryVars, detVars, storeVars, wsVars>>

\* scanner.start() has settled and its 'start' handler has not resumed
\* yet: it resumes before another line is read
StartSettled ==
    /\ cliStartPc = "awaiting"
    /\ startPc = "none"
    /\ scanPc = "done"

\* a line can be read: the process has not exited (a scanner.start() that
\* throws ends it, index.js 46-49) and no handler is about to resume
ReadsLine ==
    /\ initialized
    /\ startError = "none"
    /\ ~StartSettled

\* the line 'start': refused when InteractiveMode.isRunning; otherwise the
\* handler awaits scanner.start().  On a scanner that is running start()
\* returns at once, and so it does in realtime mode once it has
\* subscribed: the handler sets its flag.  In the other modes start() runs
\* up to its first await (one 'start' handler is followed at a time)
CliStartCommand ==
    /\ ReadsLine
    /\ cliLast' = "start"
    /\ IF cliRunning
       THEN UNCHANGED <<scanVars, cliRunning, cliStartPc>>
       ELSE IF isRunning
       THEN /\ cliRunning' = TRUE
            /\ UNCHANGED <<scanVars, cliStartPc>>
       ELSE /\ cliStartPc = "idle"
            /\ StartCall
            /\ IF scanMode = "realtime"
               THEN /\ cliRunning' = isRunning'
                    /\ cliStartPc' = cliStartPc
               ELSE /\ cliRunning' = cliRunning
                    /\ cliStartPc' = "awaiting"
    /\ UNCHANGED cliRest

\* scanner.start() resolves in the historical modes, not before
\* scanBlockRange has returned: the handler sets InteractiveMode.isRunning
CliStartReturns ==
    /\ StartSettled
    /\ startError = "none"
    /\ cliStartPc' = "idle"
    /\ cliRunning' = TRUE
    /\ UNCHANGED <<scanVars, cliLast, cliRest>>

\* the line 'stop': scanner.stop() is called only when
\* InteractiveMode.isRunning; otherwise the handler prints that the scanner
\* is not running
CliStopCommand ==
    /\ ReadsLine
    /\ cliLast' = "stop"
    /\ IF cliRunning
       THEN /\ cliRunning' = FALSE
            /\ IF isRunning THEN StopCall ELSE UNCHANGED scanVars
       ELSE UNCHANGED <<scanVars, cliRunning>>
    /\ UNCHANGED <<cliStartPc, cliRest>>

\* InteractiveMode.start initializes the scanner and reads commands
CliNext ==
    \/ Initialize
    \/ CliStartCommand
    \/ CliStartReturns
    \/ CliStopCommand
    \/ DetermineBlockRange
    \/ ScanBatchStart
    \/ ScanLoopExit
    \/ GetBatchBlocks
    \/ ProcessBlock
    \/ UpdateScanningProgress
    \/ NewBlock
    \/ OnNewBlock
    \/ ProcessRealtimeBlock

SpecCli == Init /\ [][CliNext]_vars

(* ------------------------ stop() with work in flight -------------------- *)
\* processBlock on a block, of the batch or delivered by the subscription,
\* whose detection had read its receipts before disconnect(): the records
\* are in hand and saveContracts runs on whatever the database is now
ProcessDetectedBlock ==
    /\ \/ /\ scanPc = "process"
          /\ \E n \in inBatch :
               /\ SaveDetected(n, ChainRecords(n))
               /\ inBatch' = inBatch \ {n}
          /\ UNCHANGED inRealtime
       \/ /\ \E n \in inRealtime :
               /\ SaveDetected(n, ChainRecords(n))
               /\ inRealtime' = inRealtime \ {n}
          /\ UNCHANGED inBatch
    /\ UNCHANGED <<auxVars, cfgVars, scannerVars, errors, provVars, dbOpen,
                   lastScannedBlock, latestBlock, startPc, scanPc, rangeStart,
                   rangeEnd, batchCalls, currentStart, currentEnd,
                   blockResults, fetchFailed, newBlocks, calls, stopped,
                   fetchCount, progressSeen, pauseBreak, entered, rtMined,
                   notified, missed, missedBefore, startError>>

\* one scanner instance from initialize() on: its scanning, pause(),
\* resume() and stop()
StopNext ==
    \/ Initialize
    \/ Start
    \/ DetermineBlockRange
    \/ Pause
    \/ Resume
    \/ Stop
    \/ ScanBatchStart
    \/ ScanLoopExit
    \/ GetBatchBlocks
    \/ ProcessBlock
    \/ ProcessDetectedBlock
    \/ UpdateScanningProgress
    \/ NewBlock
    \/ OnNewBlock
    \/ ProcessRealtimeBlock

SpecStop == Init /\ [][StopNext]_vars

(* ------------------ ContractDetector.processTransaction ----------------- *)
Addresses == {"a1", "a2"}
\* transaction.data: at most 10 characters; longer without the characters
\* 'f5'; longer with them
DataKinds == {"empty", "plain", "f5"}
\* a receipt log: the emitting address, whether topics[0] is one of the
\* three creation topics, and the address extractAddressFromLog finds in
\* it ("none": it finds none)
Logs == [address : Addresses,
         creationTopic : BOOLEAN,
         arg : Addresses \cup {"none"}]
LogLists == UNION {[1..k -> Logs] : k \in 0..MaxLogs}
\* getTransactionReceipt: null, or a receipt with its status and the
\* address of the contract the transaction created
Receipts ==
    {r \in [present : BOOLEAN, status : {0, 1},
            contractAddress : {"none", "a1"}] :
        ~r.present => (r.status = 0 /\ r.contractAddress = "none")}

DetectInit ==
    /\ txTo \in {"null", "a2"}
    /\ txData \in DataKinds
    /\ receipt \in Receipts
    /\ logs \in LogLists
    /\ withCode \in SUBSET Addresses
    /\ analyzeBytecode \in BOOLEAN
    /\ records = <<>>
    /\ detPc = "pending"
    /\ blockTxs = <<>>
    /\ blockRecords = <<>>
    /\ blockPc = "idle"
    /\ maxRetries = DefaultMaxRetries
    /\ RetryEntry
    /\ ScannerParked
    /\ StoreEmpty

\* EthereumProvider.isContractCreation
IsContractCreation(to) == to = "null"

\* EthereumProvider.isContract: getCode(address) !== '0x'
IsContract(addr, code) == addr \in code

\* a receipt check that accepts every receipt that exists
ReceiptSucceededAnyStatus(rcpt) == rcpt.present

\* processTransaction: a receipt exists and `receipt.status !== 1` is false
ReceiptSucceeded(rcpt) == rcpt.present /\ rcpt.status = 1

\* an extractContractData that does not look at the bytecode
ExtractContractDataUnchecked(addr, code, analyze) ==
    IF analyze
    THEN <<>>
    ELSE <<[address |-> addr, creationType |-> "none", analysis |-> FALSE]>>

\* extractContractData: no record for empty bytecode.  With analyzeBytecode
\* set, `this.analyzeBytecode(bytecode, contractAddress)` calls the boolean
\* setting (the method is named analyzeContractBytecode): the TypeError is
\* caught and null returned.  The record built otherwise has no
\* creationType and no analysis.
ExtractContractData(addr, code, analyze) ==
    IF ~IsContract(addr, code)
    THEN <<>>
    ELSE IF analyze
         THEN <<>>
         ELSE <<[address |-> addr, creationType |-> "none",
                 analysis |-> FALSE]>>

\* contractData.creationType = kind
Tagged(recs, kind) ==
    [i \in DOMAIN recs |-> [recs[i] EXCEPT !.creationType = kind]]

\* detectFactoryContracts, the loop over the logs
RECURSIVE FactoryLogRecords(_, _, _)
FactoryLogRecords(ls, code, analyze) ==
    IF ls = <<>>
    THEN <<>>
    ELSE (IF /\ Head(ls).creationTopic
             /\ Head(ls).arg # "none"
             /\ IsContract(Head(ls).arg, code)
          THEN Tagged(ExtractContractData(Head(ls).arg, code, analyze),
                      "factory")
          ELSE <<>>)
         \o FactoryLogRecords(Tail(ls), code, analyze)

\* detectCreate2Contracts, the loop over the logs
RECURSIVE Create2LogRecords(_, _, _, _)
Create2LogRecords(to, ls, code, analyze) ==
    IF ls = <<>>
    THEN <<>>
    ELSE (IF Head(ls).address # to /\ IsContract(Head(ls).address, code)
          THEN Tagged(ExtractContractData(Head(ls).address, code, analyze),
                      "create2")
          ELSE <<>>)
         \o Create2LogRecords(to, Tail(ls), code, analyze)

\* detectCreate2Contracts: only when the data includes 'f5'
DetectCreate2Contracts(to, data, ls, code, analyze) ==
    IF data = "f5" THEN Create2LogRecords(to, ls, code, analyze) ELSE <<>>

\* detectFactoryContracts: the log matches, then the CREATE2 heuristic when
\* the data is longer than 10 characters
DetectFactoryContracts(to, data, ls, code, analyze) ==
    FactoryLogRecords(ls, code, analyze)
    \o (IF data # "empty"
        THEN DetectCreate2Contracts(to, data, ls, code, analyze)
        ELSE <<>>)

\* processTransaction: the records it returns (none where it returns null)
ProcessTransaction(to, data, rcpt, ls, code, analyze) ==
    IF ~IsContractCreation(to) THEN <<>>
    ELSE IF ~ReceiptSucceeded(rcpt) THEN <<>>
    ELSE (IF rcpt.contractAddress # "none"
          THEN ExtractContractData(rcpt.contractAddress, code, analyze)
          ELSE <<>>)
         \o DetectFactoryContracts(to, data, ls, code, analyze)

\* the detector processes the transaction
Detect ==
    /\ detPc = "pending"
    /\ records' = ProcessTransaction(txTo, txData, receipt, logs, withCode,
                                     analyzeBytecode)
    /\ detPc' = "done"
    /\ UNCHANGED <<txTo, txData, receipt, logs, withCode, analyzeBytecode,
                   blockVars, retryVars, scanVars, wsVars, cliVars, storeVars>>

DetectNext == Detect

SpecDetect == DetectInit /\ [][DetectNext]_vars

(* -------------------- ContractDetector.processBlock --------------------- *)
\* most transactions of a block
MaxTxs == 2

\* what goes wrong with the receipt of a transaction: nothing;
\* getTransactionReceipt rejects after its retries; the receipt comes
\* without its logs array
ReceiptFaults == {"none", "error", "nologs"}

\* A transaction of the block: a successful contract creation at address
\* a1, with or without a usable hash, its receipt carrying no log or one
\* log with a creation topic that points at `logArg`.  Every address holds
\* bytecode; getCode rejects after its retries for the addresses in
\* `codeFault`.
BlockTransactions ==
    [hash : BOOLEAN,
     logArg : Addresses \cup {"none"},
     receiptFault : ReceiptFaults,
     codeFault : {{}, {"a1"}}]
Blocks2Scan == UNION {[1..k -> BlockTransactions] : k \in 0..MaxTxs}

BlockInit ==
    /\ blockTxs \in Blocks2Scan
    /\ blockRecords = <<>>
    /\ blockPc = "pending"
    /\ txTo = "null"
    /\ txData = "empty"
    /\ receipt = [present |-> FALSE, status |-> 0, contractAddress |-> "none"]
    /\ logs = <<>>
    /\ withCode = {}
    /\ analyzeBytecode = FALSE
    /\ records = <<>>
    /\ detPc = "idle"
    /\ maxRetries = DefaultMaxRetries
    /\ RetryEntry
    /\ ScannerParked
    /\ StoreEmpty

\* the receipt logs of a block transaction
TxLogs(tx) ==
    IF tx.logArg = "none"
    THEN <<>>
    ELSE <<[address |-> "a2", creationTopic |-> TRUE, arg |-> tx.logArg]>>

\* the addresses whose bytecode the node serves for the transaction: a
\* rejected getCode makes isContract return false and extractContractData
\* return null, as empty bytecode does
TxCode(tx) == Addresses \ tx.codeFault

\* processTransaction on a transaction of the block.  A rejected
\* getTransactionReceipt lands in the catch of processTransaction: null.
\* Without receipt.logs the loop of detectFactoryContracts throws inside
\* its own try, which returns no additional record, after the record of
\* the created address has been pushed.
TransactionOutcome(tx) ==
    IF tx.receiptFault = "error"
    THEN <<>>
    ELSE ProcessTransaction(
             "null", "plain",
             [present |-> TRUE, status |-> 1, contractAddress |-> "a1"],
             IF tx.receiptFault = "nologs" THEN <<>> ELSE TxLogs(tx),
             TxCode(tx), FALSE)

\* contractData.transactionHash: the records of the transaction at
\* position h of the block
WithHash(recs, h) ==
    [i \in DOMAIN recs |->
        [address |-> recs[i].address,
         creationType |-> recs[i].creationType,
         transactionHash |-> h]]

\* a processBlock on Promise.all without the per-transaction catch: one
\* failed transaction loses the block
RECURSIVE CollectAllOrNothing(_, _)
CollectAllOrNothing(txs, h) ==
    IF \E i \in DOMAIN txs :
          txs[i].hash /\ (txs[i].receiptFault # "none"
                           \/ txs[i].codeFault # {})
    THEN <<>>
    ELSE IF txs = <<>>
         THEN <<>>
         ELSE (IF Head(txs).hash
               THEN WithHash(TransactionOutcome(Head(txs)), h)
               ELSE <<>>)
              \o CollectAllOrNothing(Tail(txs), h + 1)

\* processBlock: the transactions without a hash are filtered out, the
\* others processed each with its own catch, and the results that are not
\* null flattened in the order of the block
RECURSIVE Collect(_, _)
Collect(txs, h) ==
    IF txs = <<>>
    THEN <<>>
    ELSE (IF Head(txs).hash
          THEN WithHash(TransactionOutcome(Head(txs)), h)
          ELSE <<>>)
         \o Collect(Tail(txs), h + 1)

\* ContractDetector.processBlock resolves
DetectBlock ==
    /\ blockPc = "pending"
    /\ blockRecords' = Collect(blockTxs, 1)
    /\ blockPc' = "done"
    /\ UNCHANGED <<blockTxs, txVars, retryVars, scanVars, wsVars, cliVars, storeVars>>

BlockNext == DetectBlock

SpecBlock == BlockInit /\ [][BlockNext]_vars

(* -------------------------- Database.saveContract ----------------------- *)
Networks == {"ethereum", "polygon"}
\* the other columns of a record, as one value
Metas == {"m1", "m2"}
\* contractData as saveContract reads it
ContractData == [address : Addresses, network : Networks, meta : Metas]

StoreInit ==
    /\ StoreEmpty
    /\ maxRetries = DefaultMaxRetries
    /\ RetryEntry
    /\ ScannerParked
    /\ DetectorParked

\* the columns of a row other than its id
RowData(r) == [address |-> r.address, network |-> r.network, meta |-> r.meta]

\* an INSERT that replaces nothing
InsertRow(table, id, data) ==
    table \cup {[id |-> id, address |-> data.address,
                 network |-> data.network, meta |-> data.meta]}

\* INSERT OR REPLACE INTO contracts: the one uniqueness constraint of the
\* table besides the id is `address TEXT UNIQUE`, so the row with the same
\* address is deleted and the new row inserted under a new id
InsertOrReplace(table, id, data) ==
    {r \in table : r.address # data.address}
    \cup {[id |-> id, address |-> data.address,
           network |-> data.network, meta |-> data.meta]}

\* saveContract resolves
SaveContract ==
    /\ Len(saves) < MaxSaves
    /\ \E data \in ContractData :
         /\ rows' = InsertOrReplace(rows, nextId, data)
         /\ saves' = Append(saves, data)
    /\ nextId' = nextId + 1
    /\ UNCHANGED <<progressVars, analysisVars, retryVars, detVars, scanVars, wsVars, cliVars>>

StoreNext == SaveContract

SpecStore == StoreInit /\ [][StoreNext]_vars

(* ------------- Database: the scanning_progress table -------------------- *)
\* updateScanningProgress calls over one behaviour
MaxProgressWrites == 3

\* the modes in which start() reaches determineBlockRange and scanBlockRange
LoopModes == {"historical", "both"}

\* INSERT OR REPLACE INTO scanning_progress (network, last_scanned_block,
\* scan_mode): the unique index idx_progress_network is on the network
\* column alone, so the network's row is deleted, whatever its scan_mode,
\* and the new row inserted under a new id
ReplaceProgressRow(table, id, network, lastScanned, mode) ==
    {r \in table : r.network # network}
    \cup {[id |-> id, network |-> network,
           last_scanned_block |-> lastScanned, scan_mode |-> mode]}

\* getScanningProgress(network): SELECT * ... WHERE network = ?, resolved
\* with the row's last_scanned_block or with undefined; the scan mode is
\* no part of the query
GetScanningProgress(table, network) ==
    IF \E r \in table : r.network = network
    THEN (CHOOSE r \in table : r.network = network).last_scanned_block
    ELSE NoCheckpoint

\* determineBlockRange of a scan of the network in the given mode, from a
\* configured start block: the start block it resolves
ResolvedStart(table, network, mode, start) ==
    ResolveStart(start, GetScanningProgress(table, network))

\* scanBlockRange of a scan of some network in some mode commits a batch
UpdateProgressRow ==
    /\ progressNextId <= MaxProgressWrites
    /\ \E network \in Networks, n \in Blocks, mode \in LoopModes :
         progressRows' = ReplaceProgressRow(progressRows, progressNextId,
                                            network, n, mode)
    /\ progressNextId' = progressNextId + 1
    /\ UNCHANGED <<contractVars, analysisVars, retryVars, detVars, scanVars, wsVars, cliVars>>

ProgressNext == UpdateProgressRow

SpecProgress == StoreInit /\ [][ProgressNext]_vars

(* ------------- Database: the contract_analysis table -------------------- *)
\* saveContractAnalysis calls over one behaviour
MaxAnalyses == 4

\* the analysed columns of a row, as one value
AnalysisValues == {"v1", "v2"}
\* analysisData as saveContractAnalysis reads it
AnalysisData == [contractAddress : Addresses, values : AnalysisValues]

\* INSERT OR REPLACE INTO contract_analysis: the table has no uniqueness
\* constraint besides its AUTOINCREMENT id, which the statement does not
\* give, so nothing is ever replaced and a new row is inserted
InsertAnalysisRow(table, id, data) ==
    table \cup {[id |-> id, contract_address |-> data.contractAddress,
                 values |-> data.values]}

\* saveContractAnalysis resolves
SaveContractAnalysis ==
    /\ Len(analysisSaves) < MaxAnalyses
    /\ \E data \in AnalysisData :
         /\ analysisRows' =
               InsertAnalysisRow(analysisRows, analysisNextId, data)
         /\ analysisSaves' = Append(analysisSaves, data)
    /\ analysisNextId' = analysisNextId + 1
    /\ UNCHANGED <<contractVars, progressVars, retryVars, detVars, scanVars, wsVars, cliVars>>

AnalysisNext == SaveContractAnalysis

SpecAnalysis == StoreInit /\ [][AnalysisNext]_vars

(* ------------- EthereumProvider: WebSocket reconnection ----------------- *)
\* the fields of the scanner that the realtime start and stop leave alone
wsScanRest == <<cfgVars, initError, isPaused, statVars, provVars, dbVars,
                latestBlock, startPc, loopVars, rtVars, histVars, faults,
                cliVars>>

\* a scanner in realtime mode, constructed, nothing initialized
WsInit ==
    /\ NoWebSocket
    /\ CliIdle
    /\ scanMode = "realtime"
    /\ startBlock = Latest
    /\ endBlock = Latest
    /\ batchSize = 1
    /\ endpointChainId = ChainId
    /\ Fresh
    /\ lastScannedBlock = NoCheckpoint
    /\ contracts = {}
    /\ latestBlock = InitHead
    /\ missed = {}
    /\ calls = 0
    /\ faults = 0
    /\ maxRetries = DefaultMaxRetries
    /\ RetryEntry
    /\ DetectorParked
    /\ StoreEmpty

\* providers created so far
Created == {p \in ProviderIds : wsSockets[p].state # "unused"}

\* initializeWebSocket up to its await: `this.wsProvider = new
\* ethers.WebSocketProvider(wsUrl)` is provider p, made by caller `by`
NewProvider(socks, p, by) ==
    [socks EXCEPT ![p] = [state |-> "connecting", attempt |-> by,
                          closeHandlers |-> 0, blockListeners |-> 0]]

\* k reconnectWebSocket calls, one after the other, from provider p on
RECURSIVE Reconnect(_, _, _)
Reconnect(socks, p, k) ==
    IF k = 0
    THEN socks
    ELSE Reconnect(NewProvider(socks, p, "reconnect"), p + 1, k - 1)

\* setupWebSocketHandlers: a 'close' handler is added to the socket of
\* whatever this.wsProvider refers to now; nothing when it is null
SetupWebSocketHandlers(socks, cur) ==
    IF cur = 0
    THEN socks
    ELSE [socks EXCEPT ![cur].closeHandlers = @ + 1]

\* a 'close' handler that calls reconnectWebSocket twice
ReconnectsTwice(handlers) == 2 * handlers

\* the socket emits 'close': every handler installed on it calls
\* reconnectWebSocket once
ReconnectsOnClose(handlers) == handlers

\* BlockScanner.initialize in realtime mode calls initializeWebSocket
\* (without a wsUrl it returns false at once)
WsInitialize ==
    /\ ~initialized
    /\ Created = {}
    /\ \/ /\ wsSockets' = NewProvider(wsSockets, 1, "init")
          /\ wsCurrent' = 1
          /\ initialized' = initialized
       \/ /\ initialized' = TRUE
          /\ UNCHANGED <<wsSockets, wsCurrent>>
    /\ UNCHANGED <<wsCallbacks, keepAliveTimers, isRunning, wsScanRest, retryVars, detVars,
                   storeVars>>

\* getNetwork of provider p resolves: initializeWebSocket installs the
\* handlers and returns true.  (Whether the call can still resolve on a
\* provider destroyed meanwhile is left open: it may.)
WsConnected ==
    \E p \in ProviderIds :
        /\ wsSockets[p].attempt # "none"
        /\ wsSockets' =
              SetupWebSocketHandlers(
                  [wsSockets EXCEPT
                      ![p].state = IF @ = "connecting" THEN "open" ELSE @,
                      ![p].attempt = "none"],
                  wsCurrent)
        /\ initialized' = (initialized \/ wsSockets[p].attempt = "init")
        /\ UNCHANGED <<wsCurrent, wsCallbacks, keepAliveTimers, isRunning, wsScanRest,
                       retryVars, detVars, storeVars>>

\* getNetwork of provider p rejects: initializeWebSocket logs and returns
\* false; the socket that could not connect goes down
WsConnectFails ==
    \E p \in ProviderIds :
        /\ wsSockets[p].attempt # "none"
        /\ wsSockets' =
              [wsSockets EXCEPT
                  ![p].state = IF @ = "connecting" THEN "closing" ELSE @,
                  ![p].attempt = "none"]
        /\ initialized' = (initialized \/ wsSockets[p].attempt = "init")
        /\ UNCHANGED <<wsCurrent, wsCallbacks, keepAliveTimers, isRunning, wsScanRest,
                       retryVars, detVars, storeVars>>

\* the socket of provider p emits 'close' (the connection dropped, or the
\* provider was destroyed or could not connect): its handlers run, each
\* reconnectWebSocket replacing this.wsProvider by a new provider
WsCloseEvent ==
    \E p \in ProviderIds :
        LET k == ReconnectsOnClose(wsSockets[p].closeHandlers)
            n == Cardinality(Created)
        IN  /\ wsSockets[p].state \in {"open", "closing"}
            /\ n + k <= MaxProviders
            /\ wsSockets' =
                  Reconnect([wsSockets EXCEPT ![p].state = "closed"],
                            n + 1, k)
            /\ wsCurrent' = IF k = 0 THEN wsCurrent ELSE n + k
            /\ UNCHANGED <<wsCallbacks, keepAliveTimers, initialized, isRunning, wsScanRest,
                           retryVars, detVars, storeVars>>

\* BlockScanner.start in realtime mode: refused while running; onNewBlock
\* throws without a provider (start() resets isRunning) and otherwise adds
\* a 'block' listener to this.wsProvider; keepAlive() then sets an interval
\* of 60 s whose handle it drops
WsStart ==
    /\ initialized
    /\ ~isRunning
    /\ IF wsCurrent = 0
       THEN UNCHANGED <<wsSockets, isRunning, keepAliveTimers>>
       ELSE /\ wsSockets' =
                 [wsSockets EXCEPT ![wsCurrent].blockListeners = @ + 1]
            /\ isRunning' = TRUE
            /\ keepAliveTimers' = keepAliveTimers + 1
    /\ UNCHANGED <<wsCurrent, wsCallbacks, initialized, wsScanRest,
                   retryVars, detVars, storeVars>>

\* BlockScanner.stop: disconnect destroys this.wsProvider (its listeners
\* are removed and its socket closed) and sets it to null; no timer is
\* cleared
WsStop ==
    /\ isRunning
    /\ isRunning' = FALSE
    /\ wsSockets' =
          IF wsCurrent = 0
          THEN wsSockets
          ELSE [wsSockets EXCEPT
                   ![wsCurrent].state =
                       IF @ \in {"connecting", "open"} THEN "closing" ELSE @,
                   ![wsCurrent].blockListeners = 0]
    /\ wsCurrent' = 0
    /\ UNCHANGED <<wsCallbacks, keepAliveTimers, initialized, wsScanRest, retryVars, detVars,
                   storeVars>>

\* 'block' listeners on the providers p..MaxProviders whose socket is open
RECURSIVE OpenListeners(_, _)
OpenListeners(socks, p) ==
    IF p > MaxProviders
    THEN 0
    ELSE (IF socks[p].state = "open" THEN socks[p].blockListeners ELSE 0)
         + OpenListeners(socks, p + 1)

\* the node mines a block: every connected provider emits 'block' to each
\* of its listeners, and each listener fetches the block and calls the
\* scanner's callback
WsNewBlock ==
    /\ wsCallbacks' = OpenListeners(wsSockets, 1)
    /\ UNCHANGED <<wsSockets, wsCurrent, keepAliveTimers, initialized,
                   isRunning, wsScanRest,
                   retryVars, detVars, storeVars>>

WsNext ==
    \/ WsInitialize
    \/ WsConnected
    \/ WsConnectFails
    \/ WsCloseEvent
    \/ WsStart
    \/ WsStop
    \/ WsNewBlock

SpecWs == WsInit /\ [][WsNext]_vars

(* ------------------------------ properties ----------------------------- *)
\* the records of block n that exist on the chain
RecordsOf(n) == IF n <= latestBlock THEN ChainRecords(n) ELSE {}

\* the scanBlockRange loop of this instance has been entered
InPass == scanPc \in {"top", "fetch", "process", "done"}

\* C1: the checkpoint is advanced to a batch's last block only when every
\* contract record of every block of that batch is in the contracts table;
\* a batch with a failed fetch or a rejected save does not move it.
C1_CheckpointOnlyAfterPersist ==
    [][lastScannedBlock' # lastScannedBlock =>
         \A n \in BatchRange : RecordsOf(n) \subseteq contracts']_vars

\* C2: for a batch size of at least 1, a historical pass that runs to the
\* end of its range without pause or stop has fetched every block of
\* [rangeStart, rangeEnd] exactly once; at no time is a block fetched twice
\* or a block outside the range fetched.
C2_EachBlockOnce ==
    (InPass /\ batchSize >= 1) =>
        /\ \A n \in Blocks :
             /\ fetchCount[n] <= 1
             /\ fetchCount[n] = 1 => n \in rangeStart..rangeEnd
        /\ (scanPc = "done" /\ currentStart > rangeEnd) =>
             \A n \in rangeStart..rangeEnd : fetchCount[n] = 1

\* a pass of several batches, the last one cut short by the range end, ran
\* to its end
C2_Witness ==
    /\ scanPc = "done"
    /\ currentStart > rangeEnd
    /\ rangeEnd - rangeStart + 1 > batchSize
    /\ (rangeEnd - rangeStart + 1) % batchSize # 0
    /\ \A n \in rangeStart..rangeEnd : fetchCount[n] = 1

\* C3: a pass that found a checkpoint c, whatever its value, starts above
\* it: the effective start is max(configured start, c + 1) and no block
\* numbered c or less is fetched.
C3_ResumeAboveCheckpoint ==
    (InPass /\ progressSeen # NoCheckpoint) =>
        /\ rangeStart >= progressSeen + 1
        /\ startBlock # Latest => rangeStart = Max(startBlock, progressSeen + 1)
        /\ \A n \in Blocks : fetchCount[n] > 0 => n > progressSeen

C5_PausedStartsNoWork ==
    /\ [][isPaused =>
            /\ scanPc' = "fetch" => scanPc = "fetch"
            /\ inRealtime' \subseteq inRealtime]_vars
    /\ [](isPaused =>
            /\ (scanPc = "process" /\ inBatch # {}) => ENABLED ProcessBlock
            /\ inRealtime # {} => ENABLED ProcessRealtimeBlock)
    /\ [](blocksProcessed + Cardinality(inBatch) + Cardinality(inRealtime)
            = entered)

\* the loop found the scanner paused and left without a new batch, after
\* the batch in flight had been processed to its end
C5_Witness ==
    /\ isPaused
    /\ pauseBreak
    /\ scanPc = "done"
    /\ blocksProcessed > 0
    /\ currentStart <= rangeEnd

\* C6: a historical pass that was paused between two batches and resumed
\* goes on to process the remaining batches of its range.
C6_ResumeContinuesPass ==
    (scanPc = "done" /\ pauseBreak /\ isRunning /\ ~isPaused /\ ~stopped) =>
        \A n \in rangeStart..rangeEnd : fetchCount[n] >= 1

\* C7: after stop() no later start() is accepted: no step sets isRunning
\* back to true and no start() goes on to resolve a block range.
C7_StoppedIsTerminal ==
    [][stopped =>
         /\ isRunning' => isRunning
         /\ startPc' = "range" => startPc = "range"]_vars

\* C8: after stop() the instance holds no WebSocket provider and no block
\* subscription, and none comes back.
C8_StopReleasesWebSocket ==
    stopped => (wsProvider = "null" /\ ~blockListener)

\* C9: every block mined while realtime scanning is active on a connected
\* WebSocket provider, before or after a reconnection, is delivered to the
\* callback registered with onNewBlock.
C9_DeliveryAfterReconnect ==
    rtMined \subseteq notified

\* C10: when a block of a batch cannot be fetched, getBatchBlocks still
\* returns every other block of the batch, each of them completes
\* processBlock, and its records are in the contracts table unless their
\* own save was rejected.
C10_FailedBlockIsolated ==
    (scanPc = "process" /\ inBatch = {} /\ fetchFailed # {}) =>
        /\ blockResults = BatchRange \ fetchFailed
        /\ \A n \in BatchRange \ fetchFailed :
             /\ n \in processed
             /\ ~stopped => RecordsOf(n) \subseteq (contracts \cup rejected)

\* a batch lost one block and the records of another are stored
C10_Witness ==
    /\ scanPc = "process"
    /\ inBatch = {}
    /\ fetchFailed # {}
    /\ \E n \in BatchRange \ fetchFailed :
         /\ RecordsOf(n) # {}
         /\ RecordsOf(n) \subseteq contracts

\* C11: a block whose fetch failed in an earlier pass is fetched again by a
\* re-run of historical mode over the same configured range: a re-run that
\* has run to the end of its range has fetched every such block of the
\* range.
C11_GapRefetched ==
    (scanPc = "done" /\ currentStart > rangeEnd /\ ~stopped
       /\ startBlock # Latest) =>
        \A n \in missedBefore :
            (startBlock <= n /\ n <= rangeEnd) => fetchCount[n] >= 1

\* C12: when the endpoint reports a chain id other than the configured
\* one, initialization fails in its single connection test (no failure is
\* waited out or retried), and the scanner never runs: it is never
\* initialized or running, fetches no block and holds no WebSocket provider
\* or subscription.
C12_ChainMismatchIsFatal ==
    (endpointChainId # ChainId) =>
        /\ ~initialized /\ ~isRunning
        /\ startPc = "none" /\ scanPc = "idle"
        /\ fetchCount = NoFetches
        /\ wsProvider = "null" /\ ~blockListener
        /\ lastScannedBlock = NoCheckpoint /\ contracts = {}

\* initialization has failed on the chain id
C12_Witness ==
    /\ endpointChainId # ChainId
    /\ initError = "chain"
    /\ provider
    /\ dbOpen

\* C13: when the resolved start block exceeds the resolved end block,
\* the start() call that resolved them fails: its error reaches the caller,
\* the scanner is left not running, and the call enters no scan loop,
\* fetches no block and writes no checkpoint or record.
C13_EmptyRangeFailsStart ==
    /\ [][(/\ startPc = "range" /\ startPc' = "none" /\ calls' = calls
           /\ ResolveStart(ResolveBlock(startBlock, latestBlock),
                           lastScannedBlock)
                > ResolveBlock(endBlock, latestBlock))
          => /\ startError' \in {"range", "rpc"}
             /\ ~isRunning'
             /\ UNCHANGED <<loopVars, fetchCount, lastScannedBlock,
                            contracts>>]_vars
    /\ [](startError = "range" =>
            /\ ~isRunning
            /\ startPc = "none"
            /\ scanPc \in {"idle", "done"})

\* a start() was refused for its empty range after a completed pass had
\* moved the checkpoint to the end of the configured range
C13_Witness ==
    /\ startError = "range"
    /\ lastScannedBlock # NoCheckpoint
    /\ lastScannedBlock >= ResolveBlock(endBlock, latestBlock)

\* C14: a call made through withRetry invokes the underlying operation at
\* most maxRetries times in total before its failure reaches the caller.
C14_AtMostMaxRetriesCalls ==
    invocations <= maxRetries

\* C14 as amended: withRetry invokes the operation at most maxRetries + 1
\* times (the first attempt and maxRetries retries), and exactly that many
\* times when the failure reaches the caller.
C14_AtMostMaxRetriesPlusOneCalls ==
    /\ invocations <= maxRetries + 1
    /\ retryPc = "thrown" => invocations = maxRetries + 1

\* a call with several retries configured has failed for good
C14_Witness ==
    /\ retryPc = "thrown"
    /\ maxRetries >= 2
    /\ invocations = maxRetries + 1
    /\ lastError # "none"

\* the addresses of a list of records
RecordAddresses(recs) == {recs[i].address : i \in DOMAIN recs}

\* C15: the detector returns no record for an address without bytecode,
\* on the direct path, the factory log match or the CREATE2 heuristic.
C15_NoRecordWithoutCode ==
    detPc = "done" => RecordAddresses(records) \subseteq withCode

\* records were returned for a transaction one of whose logs points to an
\* address without bytecode, by its topic or by the CREATE2 heuristic
C15_Witness ==
    /\ detPc = "done"
    /\ records # <<>>
    /\ \E i \in DOMAIN logs :
         \/ /\ logs[i].creationTopic
            /\ logs[i].arg \in Addresses \ withCode
         \/ /\ txData = "f5"
            /\ logs[i].address \notin withCode

\* C16: a transaction with to = null, a successful receipt and a created
\* address that holds bytecode yields exactly one record, of creation kind
\* 'direct' (the record of the created address, not tagged as a factory or
\* CREATE2 detection), whatever its logs and its data.
C16_OneDirectRecord ==
    (/\ detPc = "done"
     /\ IsContractCreation(txTo)
     /\ ReceiptSucceeded(receipt)
     /\ receipt.contractAddress \in withCode) =>
        /\ Len(records) = 1
        /\ records[1].address = receipt.contractAddress
        /\ records[1].creationType \notin {"factory", "create2"}

\* C17: a creation transaction whose receipt is missing or has a status
\* other than 1 yields no record, on the direct path or any heuristic.
C17_FailedCreationNoRecord ==
    (/\ detPc = "done"
     /\ IsContractCreation(txTo)
     /\ (~receipt.present \/ receipt.status # 1)) =>
        records = <<>>

\* a failed creation whose created address and log addresses hold bytecode
\* and whose data and log would feed both heuristics was processed with the
\* analysis off
C17_Witness ==
    /\ detPc = "done"
    /\ IsContractCreation(txTo)
    /\ receipt.present
    /\ receipt.status = 0
    /\ receipt.contractAddress \in withCode
    /\ txData = "f5"
    /\ ~analyzeBytecode
    /\ \E i \in DOMAIN logs :
         /\ logs[i].creationTopic
         /\ logs[i].arg \in withCode
         /\ logs[i].address \in withCode
    /\ records = <<>>

\* C18: with analyzeBytecode enabled the detector returns records for the
\* same detections as with it disabled, each carrying an analysis; with it
\* disabled no record carries one.
C18_AnalysisIsAnnotation ==
    detPc = "done" =>
        /\ RecordAddresses(records) =
             RecordAddresses(ProcessTransaction(txTo, txData, receipt, logs,
                                                withCode, FALSE))
        /\ Len(records) =
             Len(ProcessTransaction(txTo, txData, receipt, logs, withCode,
                                    FALSE))
        /\ \A i \in DOMAIN records : records[i].analysis = analyzeBytecode

\* the stored records, ids left out
StoredData == {RowData(r) : r \in rows}

\* the rows stored under the key (address, network)
RowsOf(a, n) == {r \in rows : r.address = a /\ r.network = n}

\* the latest record saved under the key (address, network)
RECURSIVE LatestSaved(_, _, _)
LatestSaved(sq, a, n) ==
    IF sq[Len(sq)].address = a /\ sq[Len(sq)].network = n
    THEN sq[Len(sq)]
    ELSE LatestSaved(SubSeq(sq, 1, Len(sq) - 1), a, n)

\* C19: saveContract is an upsert with last-write-wins: no key (address,
\* network) ever has more than one row, after a save the one row of its key
\* holds the fields of that save, and a save that repeats the previous one
\* leaves the stored records as they were.
C19_UpsertLastWriteWins ==
    /\ [](/\ \A a \in Addresses, n \in Networks :
               Cardinality(RowsOf(a, n)) <= 1
          /\ saves # <<>> =>
               LET last == saves[Len(saves)]
               IN {RowData(r) : r \in RowsOf(last.address, last.network)}
                    = {last})
    /\ [][(/\ Len(saves') = Len(saves) + 1
           /\ saves # <<>>
           /\ saves'[Len(saves')] = saves[Len(saves)])
          => {RowData(r) : r \in rows'} = StoredData]_vars

\* a key was saved twice with different fields, the row holds the later ones
C19_Witness ==
    /\ Len(saves) = 2
    /\ saves[1].address = saves[2].address
    /\ saves[1].network = saves[2].network
    /\ saves[1].meta # saves[2].meta
    /\ StoredData = {saves[2]}

\* C20: the dedup key is (address, network): every key that was saved
\* still has its latest record stored, whatever was saved since for the
\* same address on another network.
C20_KeyIsAddressAndNetwork ==
    \A i \in DOMAIN saves :
        LatestSaved(saves, saves[i].address, saves[i].network) \in StoredData

\* C21: checkpoints are kept per (network, mode): a checkpoint written by
\* a scan in one mode leaves the start block that a scan of the same
\* network in another mode resolves, from any configured start, as it was.
C21_CheckpointPerMode ==
    [][\A r \in progressRows' \ progressRows :
         \A mode \in LoopModes \ {r.scan_mode}, start \in Blocks :
             ResolvedStart(progressRows', r.network, mode, start)
               = ResolvedStart(progressRows, r.network, mode, start)]_vars

\* C22: in mode 'both' the new-block subscription is established only
\* after every batch of the resolved historical range has been attempted,
\* whatever pause(), resume() and stop() calls arrive during the pass.
C22_RealtimeAfterHistorical ==
    [][(/\ scanMode = "both"
        /\ scanPc = "top" /\ scanPc' = "done"
        /\ blockListener')
       => currentStart > rangeEnd]_vars

\* iterations of the scanBlockRange loop that have run to their end: the
\* loop variable starts at the resolved start and advances by the batch
\* size after every batch
BatchesDone == (currentStart - rangeStart) \div batchSize

\* ceil(a / b)
CeilDiv(a, b) == (a + b - 1) \div b

\* C23: a historical pass over [s, e] with batch size b in which every
\* fetch, detection and write succeeds processes exactly
\* ceil((e - s + 1) / b) batches, ends with blocksProcessed = e - s + 1
\* and leaves the checkpoint at e.
C23_CleanPassTotals ==
    (/\ scanMode = "historical"
     /\ scanPc = "done" /\ currentStart > rangeEnd
     /\ faults = 0 /\ ~stopped) =>
        /\ BatchesDone = CeilDiv(rangeEnd - rangeStart + 1, batchSize)
        /\ blocksProcessed = rangeEnd - rangeStart + 1
        /\ lastScannedBlock = rangeEnd

\* a clean pass of two batches, the second cut short by the range end
C23_Witness ==
    /\ scanMode = "historical"
    /\ scanPc = "done" /\ currentStart > rangeEnd
    /\ faults = 0 /\ ~stopped
    /\ batchSize = 2
    /\ rangeEnd - rangeStart + 1 = 3
    /\ BatchesDone = 2
    /\ blocksProcessed = 3
    /\ lastScannedBlock = rangeEnd

\* C24: a rejected saveContract or saveContractAnalysis increments the
\* scanner's error counter and does not halt the scan: stats.errors is
\* strictly greater after the failed write than before, and the scanner
\* stays running at the same place of its loop.
C24_RejectedSaveCounted ==
    [][(/\ dbOpen
        /\ blocksProcessed' = blocksProcessed + 1
        /\ rejected' # rejected)
       => /\ errors' > errors
          /\ isRunning' = isRunning
          /\ scanPc' = scanPc]_vars

\* C25: while the scanner is running, a block fetch that fails beyond its
\* retries increments stats.errors and does not end the scan loop: once
\* the batch of the failed fetch is over the counter of the instance is at
\* least 1, and the step of the failure leaves the scanner running.
C25_FetchFailureCounted ==
    /\ []((/\ calls = 1 /\ ~stopped /\ isRunning
           /\ scanPc \in {"top", "done"}
           /\ missed # {})
          => errors >= 1)
    /\ [][(scanPc = "fetch" /\ scanPc' = "process" /\ fetchFailed' # {})
          => isRunning' = isRunning]_vars

\* the records returned for the transaction at position h of the block
OwnRecords(h) == SelectSeq(blockRecords, LAMBDA r : r.transactionHash = h)

\* the records the transaction at position h yields: the created address
\* a1, then the address its log points at when the logs could be read,
\* each unless its bytecode is among the `lost`
ExpectedRecords(tx, h, lost, logsRead) ==
    (IF "a1" \in lost
     THEN <<>>
     ELSE <<[address |-> "a1", creationType |-> "none",
             transactionHash |-> h]>>)
    \o (IF ~logsRead \/ tx.logArg = "none" \/ tx.logArg \in lost
        THEN <<>>
        ELSE <<[address |-> tx.logArg, creationType |-> "factory",
                transactionHash |-> h]>>)

\* C26: per-transaction detection within a block is independent: when
\* processing one transaction fails (receipt fetch error, malformed
\* receipt, bytecode fetch error) the detector returns no record for it and
\* still returns the records of every other transaction; transactions
\* without a hash are skipped without failing the block.
C26_TransactionsIndependent ==
    blockPc = "done" =>
        \A h \in DOMAIN blockTxs :
            LET tx == blockTxs[h]
            IN  IF (~tx.hash \/ tx.receiptFault # "none"
                      \/ tx.codeFault # {})
                THEN OwnRecords(h) = <<>>
                ELSE OwnRecords(h) = ExpectedRecords(tx, h, {}, TRUE)

\* C26 as amended: a transaction whose receipt fetch fails yields no
\* record; a receipt without logs costs only the log-based detections and
\* a bytecode fetch error only the record of the address concerned; every
\* other transaction of the block keeps all its records; transactions
\* without a hash are skipped without failing the block.
C26_FailureCostsOwnRecords ==
    blockPc = "done" =>
        \A h \in DOMAIN blockTxs :
            LET tx == blockTxs[h]
            IN  IF ~tx.hash \/ tx.receiptFault = "error"
                THEN OwnRecords(h) = <<>>
                ELSE OwnRecords(h) =
                       ExpectedRecords(tx, h, tx.codeFault,
                                       tx.receiptFault # "nologs")

\* a block whose first transaction lost its receipt fetch and whose second
\* lost the bytecode of the created address was processed: the detector
\* returned the factory detection of the second
C26_Witness ==
    /\ blockPc = "done"
    /\ Len(blockTxs) = 2
    /\ blockTxs[1].hash /\ blockTxs[1].receiptFault = "error"
    /\ blockTxs[2].hash /\ blockTxs[2].receiptFault = "none"
    /\ blockTxs[2].codeFault = {"a1"}
    /\ blockTxs[2].logArg = "a2"
    /\ blockRecords = <<[address |-> "a2", creationType |-> "factory",
                         transactionHash |-> 2]>>

\* C27: factory detection does not depend on the direct-creation
\* classification: a successful transaction with a destination (to is not
\* null) whose receipt has a log with a known creation topic that carries
\* an address holding bytecode yields a record for that address with
\* creation kind 'factory' (stated for the analysis switched off, where
\* extractContractData can build a record).
C27_FactoryWithoutDirect ==
    (/\ detPc = "done"
     /\ ~analyzeBytecode
     /\ ~IsContractCreation(txTo)
     /\ ReceiptSucceeded(receipt)) =>
        \A i \in DOMAIN logs :
            (logs[i].creationTopic /\ logs[i].arg \in withCode) =>
                \E j \in DOMAIN records :
                    /\ records[j].address = logs[i].arg
                    /\ records[j].creationType = "factory"

\* the analysis rows stored for a contract address
AnalysisRowsOf(a) == {r \in analysisRows : r.contract_address = a}

\* C28: stored analysis is one-to-one with the contract by address: after
\* any number of saveContractAnalysis calls for an address the store holds
\* exactly one analysis row for it, with the values of the latest call.
C28_OneAnalysisPerAddress ==
    \A i \in DOMAIN analysisSaves :
        LET a == analysisSaves[i].contractAddress
            latest == CHOOSE j \in DOMAIN analysisSaves :
                        /\ analysisSaves[j].contractAddress = a
                        /\ \A k \in DOMAIN analysisSaves :
                               analysisSaves[k].contractAddress = a => k <= j
        IN  /\ Cardinality(AnalysisRowsOf(a)) = 1
            /\ \A r \in AnalysisRowsOf(a) :
                   r.values = analysisSaves[latest].values

\* C29: the wait before the k-th retry of withRetry is
\* min(1000 * 2^(k-1), 30000) ms; a wait is only ever followed by a further
\* attempt: none follows the final failed attempt or a success, so a call
\* that has ended has waited once between consecutive attempts.
C29_BackoffSchedule ==
    /\ \A k \in DOMAIN sleeps :
          sleeps[k] = Min(1000 * 2^(k - 1), 30000)
    /\ retryPc = "sleep" => attempt < maxRetries
    /\ retryPc \in {"returned", "thrown"} => Len(sleeps) = invocations - 1

\* a call has failed for good after its backoff had reached the ceiling
C29_Witness ==
    /\ retryPc = "thrown"
    /\ Len(sleeps) >= 6
    /\ sleeps[5] = 16000
    /\ sleeps[6] = MaxRetryDelay

\* reconnectWebSocket calls awaiting their connection test
ReconnectsInFlight ==
    {p \in ProviderIds : wsSockets[p].attempt = "reconnect"}

\* C30: reconnection never duplicates the subscription: under any
\* sequence of close events and reconnects at most one reconnect attempt
\* is in flight, and a mined block makes the scanner's callback run at most
\* once, never once per accumulated provider or listener.
C30_NoDuplicateSubscription ==
    /\ Cardinality(ReconnectsInFlight) <= 1
    /\ wsCallbacks <= 1

\* a scanner started after the first reconnection has had a block
\* delivered once, and a second reconnection is in flight
C30_Witness ==
    /\ Cardinality(ReconnectsInFlight) = 1
    /\ Cardinality(Created) = 3
    /\ wsCallbacks = 1

\* C31: once stop() has been called, a retry loop waiting in backoff does
\* not wait out the delay, and the head of the loop starts no further
\* attempt of an operation that has failed before
C31_StopInterruptsRetry ==
    /\ [][(stopped /\ retryPc = "sleep") => sleeps' = sleeps]_vars
    /\ [][(stopped /\ retryPc = "top" /\ attempt > 0) => retryPc' # "try"]_vars

\* C32: the configuration is validated before a scan starts: the historical
\* loop never runs a batch with a batch size of 0 or less
C32_BatchSizeValidated ==
    scanPc \in {"fetch", "process"} => batchSize > 0

\* C33: the heartbeat interval of keepAlive() is cleared on stop: a scanner
\* that is not running has no heartbeat timer scheduled, and at most one
\* heartbeat timer is live over any sequence of start/stop cycles
C33_HeartbeatCleared ==
    /\ ~isRunning => keepAliveTimers = 0
    /\ keepAliveTimers <= 1

\* C34: a database error while saving one contract of a block neither
\* keeps the other contracts of the block from being saved nor fails the
\* block: when processBlock completes on block n, every record of n whose
\* own write did not fail is in the contracts table, the block is counted
\* as processed and no error is counted
C34_FailedSaveIsolated ==
    [][\A n \in Blocks :
          (/\ calls' = calls
           /\ n \in (inBatch \ inBatch') \cup (inRealtime \ inRealtime'))
          => /\ DetectContracts(n) \subseteq contracts' \cup rejected'
             /\ blocksProcessed' = blocksProcessed + 1
             /\ n \in processed'
             /\ errors' = errors]_vars

\* a block of two records has been processed on an open database with one
\* write rejected: the other record is stored and the block is counted
C34_Witness ==
    \E n \in processed :
        /\ dbOpen
        /\ blocksProcessed >= 1
        /\ DetectContracts(n) \cap rejected # {}
        /\ DetectContracts(n) \cap contracts # {}
        /\ DetectContracts(n) \cap rejected \cap contracts = {}

\* C35: in interactive mode, whenever a scan started by 'start' is in
\* progress, entering 'stop' calls the scanner's stop() and the scan ends
C35_StopCommandStops ==
    [][(cliLast' = "stop" /\ cliLast # "stop" /\ isRunning)
          => (stopped' /\ ~isRunning')]_vars

\* C36: in every reachable state of a BlockScanner, isPaused implies
\* isRunning, whatever the interleaving of start() (failing starts
\* included), pause(), resume() and stop()
C36_PausedImpliesRunning ==
    isPaused => isRunning

\* C37: for a batch size >= 1 and a finite range [start, end] the loop of
\* scanBlockRange ends after at most ceil((end - start + 1) / batchSize)
\* calls of processBatch, whether the batches succeed or fail: the loop
\* variable is ahead of the start of the range by one batch size per call
\* that has returned, the loop is left once it is past the end, and the
\* calls never exceed the bound
C37_LoopBounded ==
    (InPass /\ batchSize >= 1) =>
        /\ batchCalls <= CeilDiv(rangeEnd - rangeStart + 1, batchSize)
        /\ currentStart = rangeStart + batchSize *
               (IF scanPc \in {"fetch", "process"}
                THEN batchCalls - 1 ELSE batchCalls)
        /\ scanPc \in {"fetch", "process"} => currentStart <= rangeEnd

\* the loop has been left past the end of a range of more than one batch,
\* after the full number of calls, one of which lost a block or its
\* progress write
C37_Witness ==
    /\ scanPc = "done"
    /\ currentStart > rangeEnd
    /\ batchCalls >= 2
    /\ batchCalls = CeilDiv(rangeEnd - rangeStart + 1, batchSize)
    /\ missed # {} \/ errors > 0

\* C38: a block delivered by the new-block subscription while the scanner
\* is paused or not running is discarded, not queued, and is not passed to
\* processBlock after a later resume() either: a block enters processBlock
\* from the subscription only in the step that delivers its notification,
\* and only when the scanner is running and not paused; a delivered
\* notification is gone; and a notification is raised only for the block
\* mined in that step
C38_DroppedNotQueued ==
    /\ [][\A n \in inRealtime' \ inRealtime :
             /\ n \in newBlocks \ newBlocks'
             /\ isRunning /\ ~isPaused]_vars
    /\ [][\A n \in newBlocks' \ newBlocks :
             n = latestBlock' /\ n > latestBlock]_vars

\* a block was delivered while the scanner was paused and has been dropped
\* (no failure injected, no stop); the scanner has been resumed since and
\* the block is neither pending nor in processBlock nor processed
C38_Witness ==
    \E n \in notified :
        /\ n \notin newBlocks \cup inRealtime \cup processed
        /\ isRunning /\ ~isPaused
        /\ provider /\ ~stopped
        /\ faults = 0

\* C39: after stop() has completed (provider disconnected, database
\* closed) this scanner instance commits no further contract record and no
\* further scanning-progress write, also when a batch or a block was in
\* flight when stop() was called
C39_NoWriteAfterStop ==
    [][(stopped /\ stopped')
          => (contracts' = contracts
              /\ lastScannedBlock' = lastScannedBlock)]_vars

\* stop() ran with a batch in flight; afterwards a block of that batch with
\* records went through processBlock and the loop came back to its head
\* after its progress write: nothing was stored and the checkpoint is where
\* it was
C39_Witness ==
    /\ stopped
    /\ ~isRunning
    /\ scanPc = "top"
    /\ batchCalls = 1
    /\ faults = 0
    /\ \E n \in processed :
          /\ RecordsOf(n) # {}
          /\ RecordsOf(n) \subseteq rejected
          /\ RecordsOf(n) \cap contracts = {}
    /\ lastScannedBlock = NoCheckpoint
    /\ errors > 0

\* C40: exhausting the block range in historical mode does not change the
\* lifecycle state: once the loop has run past the end of the range,
\* isRunning (which getStats() returns as it is) stays true until stop()
\* is called
C40_RunningAfterHistorical ==
    (/\ scanMode = "historical"
     /\ scanPc = "done"
     /\ currentStart > rangeEnd
     /\ ~stopped)
    => isRunning

\* a historical pass has processed its whole range and ended; the scanner
\* has not been stopped and is still running
C40_Witness ==
    /\ scanMode = "historical"
    /\ scanPc = "done"
    /\ currentStart > rangeEnd
    /\ ~stopped
    /\ isRunning
    /\ startPc = "none"
    /\ blocksProcessed = rangeEnd - rangeStart + 1

====
